---------------------------- MODULE Spec2Model ----------------------------
(***************************************************************************)
(* mongodb-dash: the plan -> confirm -> execute protocol of the natural    *)
(* language query dashboard, with its role policies.                       *)
(*                                                                         *)
(* Backend state: the RolePolicy collection, the User documents (role and  *)
(* rolePolicy reference) and the QueryHistory collection (Turns).          *)
(* Frontend state: one mounted ChatInterface of SessionUser (messages,     *)
(* conversationId, pendingPlan) and the HTTP requests in flight.           *)
(***************************************************************************)
EXTENDS Integers, Sequences, FiniteSets, TLC

VARIABLES
    policies,        \* RolePolicy collection: name -> document or Absent
    users,           \* User documents: id -> [role, rolePolicy]
    turns,           \* QueryHistory collection, in insertion (timestamp) order
    messages,        \* ChatInterface state `messages`
    conversationId,  \* ChatInterface state `conversationId`
    pendingPlan,     \* ChatInterface state `pendingPlan`
    selectedConvId,  \* App state `selectedConvId`, ChatInterface's selectedConversationId
    pendingOrigin,   \* history: where pendingPlan comes from (no state of the program)
    planReqs,        \* POST /api/query/plan requests in flight
    execReqs,        \* POST /api/query/execute-confirmed requests in flight
    directReqs,      \* POST /api/query/execute requests in flight
    deleteReqs,      \* DELETE /api/query/history/:id requests in flight
    readReqs,        \* GET /api/query/history and /conversation/:id requests in flight
    deletedIds       \* history: the _ids of the deleted Turns (an ObjectId is issued once)

vars == <<policies, users, turns, messages, conversationId, pendingPlan,
          selectedConvId, pendingOrigin, planReqs, execReqs, directReqs, deleteReqs,
          readReqs, deletedIds>>

backendVars == <<policies, users, turns, deletedIds>>
frontendVars == <<messages, conversationId, pendingPlan, selectedConvId, pendingOrigin>>
otherReqs == <<directReqs, deleteReqs, readReqs>>

-----------------------------------------------------------------------------
(* Bounds of the model *)

MaxMsgs == 4        \* a query is typed only while messages has room for it and its answer
MaxTurns == 2       \* QueryHistory documents
MaxExec == 2        \* execute-confirmed requests in flight at once
MaxApi == 1         \* requests posted directly to the API that are in flight at once
MaxResults == 1     \* rows the executor returns
MaxHistory == 7     \* QueryHistory documents written through POST /execute
MaxDeletes == 1     \* delete requests in flight at once
MaxRendered == 3    \* Turns of the specifications that vary what a Turn holds
MaxPage == 2        \* limit and skip of a history request

-----------------------------------------------------------------------------
(* Data *)

Users == {"alice", "bob"}
SessionUser == "alice"
Roles == {"user", "Analyst", "admin"}

PolicyNames == {"Analyst", "Manager", "admin"}
Absent == [exists |-> FALSE]
NoPolicy == "none"

Operations == {"find", "aggregate", "insert", "update", "delete"}

Grant(n, ops, fs, rs) ==
    [name |-> n, operations |-> ops, fields |-> fs, restrictedFields |-> rs]

\* seed-rbac.js: the three seeded permission documents
AnalystPermissions ==
    [collections |-> <<Grant("*", {"find", "aggregate"}, {"*"},
                             {"salary", "pii", "password", "email"})>>,
     maxLimit |-> 100]
ManagerPermissions ==
    [collections |-> <<Grant("*", Operations, {"*"}, {})>>, maxLimit |-> 1000]
AdminPermissions ==
    [collections |-> <<Grant("*", Operations, {"*"}, {})>>, maxLimit |-> 10000]

\* AdminPortal: "Create New Role" starts from permissions { collections: [] };
\* the schema default of maxLimit is 100
EmptyPermissions == [collections |-> <<>>, maxLimit |-> 100]
OrdersPermissions ==
    [collections |-> <<Grant("orders", {"find"}, {"*"}, {})>>, maxLimit |-> 100]

\* the request bodies an administrator posts to createPolicy / updatePolicy
PolicyBodies ==
    { [permissions |-> p, isDefault |-> d] :
        p \in {AnalystPermissions, ManagerPermissions, EmptyPermissions, OrdersPermissions},
        d \in BOOLEAN }

PolicyDoc(p, d) == [exists |-> TRUE, permissions |-> p, isDefault |-> d]

\* the built-in fallback of getQueryPlan / executeQuery
FallbackPermissions ==
    [collections |-> <<Grant("*", {"find"}, {"*"}, {})>>]

\* operation payloads (mql): target collection, operation, referenced fields
NoMql == [collection |-> "", operation |-> "", fields |-> {}]
MqlEmails == [collection |-> "users", operation |-> "find", fields |-> {"email"}]
MqlNames == [collection |-> "users", operation |-> "find", fields |-> {"name"}]
MqlPurge == [collection |-> "orders", operation |-> "delete", fields |-> {}]
Mqls == {MqlEmails, MqlNames, MqlPurge}

Queries == {"q1", "q2"}

-----------------------------------------------------------------------------
(* Permission derivation: user.rolePolicy?.permissions || fallback *)

Populate(u) ==
    IF users[u].rolePolicy \in PolicyNames /\ policies[users[u].rolePolicy].exists
    THEN policies[users[u].rolePolicy]
    ELSE Absent

\* the permissions of the seeded role of that name, copied into the request
\* whatever the policy holds now
PermissionsOfSeed(u) ==
    CASE users[u].rolePolicy = "Analyst" -> AnalystPermissions
      [] users[u].rolePolicy = "Manager" -> ManagerPermissions
      [] users[u].rolePolicy = "admin" -> AdminPermissions
      [] OTHER -> FallbackPermissions

Permissions(u) ==
    IF Populate(u).exists THEN Populate(u).permissions ELSE FallbackPermissions

-----------------------------------------------------------------------------
(* Administration: admin.routes.js puts only `protect` in front of these,  *)
(* so the requester is any authenticated user.                             *)

CreatePolicy(requester, name, body) ==
    /\ ~policies[name].exists          \* unique name; a duplicate is answered 400
    /\ policies' = [policies EXCEPT ![name] = PolicyDoc(body.permissions, body.isDefault)]
    /\ UNCHANGED <<otherReqs, users, turns, deletedIds, frontendVars, planReqs, execReqs>>

UpdatePolicy(requester, name, body) ==
    /\ policies[name].exists           \* otherwise 404
    /\ policies' = [policies EXCEPT ![name] = PolicyDoc(body.permissions, body.isDefault)]
    /\ UNCHANGED <<otherReqs, users, turns, deletedIds, frontendVars, planReqs, execReqs>>

UpdateUserRole(requester, u, role, ref) ==
    /\ policies[ref].exists           \* the id of a policy listed by getPolicies
    /\ users' = [users EXCEPT ![u] = [role |-> role, rolePolicy |-> ref]]
    /\ UNCHANGED <<otherReqs, policies, turns, deletedIds, frontendVars, planReqs, execReqs>>

\* findOneAndUpdate(..., {upsert: true}): the fields of the update are set, the
\* others keep their value (schema default on insert)
Upsert(doc, p) ==
    PolicyDoc(p, IF doc.exists THEN doc.isDefault ELSE FALSE)

\* seedRBAC steps 1, 2, 2.5: the three roles
SeededPolicies(ps) ==
    [ps EXCEPT !["Analyst"] = PolicyDoc(AnalystPermissions, TRUE),
               !["Manager"] = Upsert(ps["Manager"], ManagerPermissions),
               !["admin"] = Upsert(ps["admin"], AdminPermissions)]

\* seedRBAC step 3: User.updateMany({rolePolicy: {$exists: false}}, ...)
SeededUsers(us) ==
    [u \in Users |->
        IF us[u].rolePolicy = NoPolicy
        THEN [role |-> "Analyst", rolePolicy |-> "Analyst"]
        ELSE us[u]]

SeedRBAC ==
    /\ policies' = SeededPolicies(policies)
    /\ users' = SeededUsers(users)
    /\ UNCHANGED <<otherReqs, turns, deletedIds, frontendVars, planReqs, execReqs>>

-----------------------------------------------------------------------------
(* Sequences, fresh ids *)

RemoveAt(s, i) == [j \in 1..(Len(s) - 1) |-> IF j < i THEN s[j] ELSE s[j + 1]]

SetAt(s, i, x) == [s EXCEPT ![i] = x]

RECURSIVE NextFree(_, _)
NextFree(used, k) == IF k \notin used THEN k ELSE NextFree(used, k + 1)

\* uuidv4(): an id in use nowhere; the smallest one stands for all of them
FreshId(used) == NextFree(used, 1)

\* n fresh ids, all different
RECURSIVE FreshIds(_, _)
FreshIds(used, n) ==
    IF n = 0 THEN <<>>
    ELSE <<FreshId(used)>> \o FreshIds(used \cup {FreshId(used)}, n - 1)

Min(a, b) == IF a < b THEN a ELSE b

\* Array.prototype.reverse
Reverse(s) == [j \in 1..Len(s) |-> s[Len(s) + 1 - j]]

\* Array.prototype.slice(from, to), 0 <= from: the elements at the 0-based
\* indexes from .. to - 1 that exist
Slice(s, from, to) == [j \in 1..(Min(to, Len(s)) - from) |-> s[from + j]]

\* Array.prototype.flat of an array of arrays
RECURSIVE Flat(_)
Flat(ss) == IF ss = <<>> THEN <<>> ELSE Head(ss) \o Flat(Tail(ss))

\* a result list of n rows, all different
ResultRows(n) == [j \in 1..n |-> j]

-----------------------------------------------------------------------------
(* QueryHistory documents (Turns) *)

NoConv == 0         \* conversationId absent from a request body

\* the same with `sample: results`
TurnWholeResult(id, u, conv, q, mql, expl, rs, ok, err) ==
    [_id |-> id, userId |-> u, conversationId |-> conv, naturalQuery |-> q,
     generatedMQL |-> mql, explanation |-> expl,
     results |-> [count |-> Len(rs), sample |-> rs],
     success |-> ok, errorMessage |-> err]

\* results: { count: results?.length || 0, sample: results?.slice(0, 100) || [] }
\* (an absent result list is the empty one here: both give count 0, sample [])
Turn(id, u, conv, q, mql, expl, rs, ok, err) ==
    [_id |-> id, userId |-> u, conversationId |-> conv, naturalQuery |-> q,
     generatedMQL |-> mql, explanation |-> expl,
     results |-> [count |-> Len(rs), sample |-> Slice(rs, 0, 100)],
     success |-> ok, errorMessage |-> err]

TurnIds == {turns[i]._id : i \in DOMAIN turns}

\* the _ids QueryHistory.create has issued
IssuedIds == TurnIds \cup deletedIds

ConvsInUse ==
    {turns[i].conversationId : i \in DOMAIN turns}
        \cup {planReqs[i].conversationId : i \in DOMAIN planReqs}
        \cup {execReqs[i].conversationId : i \in DOMAIN execReqs}
        \cup {directReqs[i].conversationId : i \in DOMAIN directReqs}

\* QueryHistory.find({userId, conversationId}).sort({timestamp: 1})
ConversationTurns(u, conv) ==
    SelectSeq(turns, LAMBDA t : t.userId = u /\ t.conversationId = conv)

NoData == [none |-> TRUE]

-----------------------------------------------------------------------------
(* The translator (/plan) and the executor (/execute-mql) of the NLP service: *)
(* opaque services, any reply or failure                                      *)

PlanReply(t, mql, nc) ==
    [type |-> t, mql_query |-> mql, needs_confirmation |-> nc,
     explanation |-> "explained"]

\* a 200 reply of /plan whose body has none of the fields getQueryPlan reads
\* (each read gives undefined), or needs_confirmation alone
MalformedReply(nc) ==
    [type |-> "", mql_query |-> NoMql, needs_confirmation |-> nc, explanation |-> ""]

PlanReplies ==
    {PlanReply("conversational", NoMql, FALSE),
     PlanReply("conversational", NoMql, TRUE),
     PlanReply("visualization", MqlNames, TRUE)}
        \cup {PlanReply("database", m, TRUE) : m \in Mqls}

\* handleNlpError: the Error each failure of the call is turned into
NlpErrors ==
    {"NLP service error",
     "NLP service is not available. Please ensure it is running.",
     "NLP service request timed out. Query may be too complex.",
     "Failed to communicate with NLP service"}

\* what a call of the NLP service comes to: response.data, or the Error thrown
Replied(data) == [ok |-> TRUE, data |-> data, error |-> ""]
Failed(e) == [ok |-> FALSE, data |-> NoData, error |-> e]

PlanOutcomes == {Replied(p) : p \in PlanReplies} \cup {Failed(e) : e \in NlpErrors}

ExecutorReplies ==
    {[results |-> ResultRows(n), explanation |-> IF n = 0 THEN "" ELSE "rows"] :
        n \in 0..MaxResults}

ExecOutcomes == {Replied(x) : x \in ExecutorReplies} \cup {Failed(e) : e \in NlpErrors}

\* a reply of /translate, which translates and executes: the fields
\* executeQuery reads
TranslateReply(ok, err, rs) ==
    [success |-> ok, error |-> err, explanation |-> "explained", mql_query |-> MqlNames,
     results |-> rs, type |-> "database"]

TranslateOutcomes ==
    {Replied(TranslateReply(ok, err, ResultRows(n))) :
        ok \in BOOLEAN, err \in {"", "boom"}, n \in 0..MaxResults}
        \cup {Failed(e) : e \in NlpErrors}

-----------------------------------------------------------------------------
(* HTTP *)

NoResponse == [status |-> 0, message |-> "", error |-> "", data |-> NoData]
Response(st, msg, err, d) == [status |-> st, message |-> msg, error |-> err, data |-> d]

PlanRequest(u, q, conv, fromUi) ==
    [user |-> u, query |-> q, conversationId |-> conv, ui |-> fromUi,
     stage |-> "sent", history |-> NoData, permissions |-> NoData,
     resp |-> NoResponse]

\* The origin of a pending plan: the conversationId and the permissions of the
\* plan request that proposed it (planned), or the conversation a demo
\* template was injected into
NoOrigin == [conversationId |-> NoConv, permissions |-> NoData, planned |-> FALSE]
Origin(conv, perms, planned) ==
    [conversationId |-> conv, permissions |-> perms, planned |-> planned]

\* clicked, plan, origin: the message whose button was clicked, the id and the
\* origin of the pending plan the body was taken from (0, 0, NoOrigin for a
\* request no ChatInterface sent)
ExecRequest(u, mql, q, conv, fromUi, clickedId, planId, origin) ==
    [user |-> u, mql |-> mql, naturalQuery |-> q, conversationId |-> conv,
     ui |-> fromUi, latest |-> fromUi, clicked |-> clickedId, plan |-> planId,
     origin |-> origin, stage |-> "sent", posted |-> NoMql, resp |-> NoResponse]

DirectRequest(u, q, conv) ==
    [user |-> u, query |-> q, conversationId |-> conv, stage |-> "sent",
     history |-> NoData, permissions |-> NoData, resp |-> NoResponse]

DeleteRequest(u, id) == [user |-> u, id |-> id, stage |-> "sent", resp |-> NoResponse]

ApiInFlight ==
    Cardinality({i \in DOMAIN planReqs : ~planReqs[i].ui})
        + Cardinality({i \in DOMAIN execReqs : execReqs[i].clicked = 0})
        + Len(directReqs)

QueryLength(q) ==
    CASE q = "" -> 0
      [] q = "max" -> 5000
      [] q = "long" -> 5001
      [] OTHER -> 2

\* the request bodies a client other than the ChatInterface posts
ApiQueries == Queries \cup {"", "max", "long"}

-----------------------------------------------------------------------------
(* getQueryPlan *)

\* the same with `query.length >= 5000`
ValidationErrorOffByOne(q) ==
    IF q = "" THEN "Please provide a query"
    ELSE IF QueryLength(q) >= 5000 THEN "Query cannot exceed 5000 characters"
    ELSE ""

\* `if (!query)` and `if (query.length > 5000)`: the message of the 400
\* response, "" for a query that passes
ValidationError(q) ==
    IF q = "" THEN "Please provide a query"
    ELSE IF QueryLength(q) > 5000 THEN "Query cannot exceed 5000 characters"
    ELSE ""

\* the same with .sort({timestamp: 1}): the five oldest, newest last
PreviousQueriesAscending(u, conv) == Slice(ConversationTurns(u, conv), 0, 5)

\* QueryHistory.find({userId, conversationId}).sort({timestamp: -1}).limit(5);
\* turns is in timestamp order
PreviousQueries(u, conv) == Slice(Reverse(ConversationTurns(u, conv)), 0, 5)

\* q.errorMessage ? `Error: ${q.errorMessage}`
\*                : q.explanation || `Found ${q.results.count} results.`
Counterpart(q) ==
    IF q.errorMessage # "" THEN <<"Error: ", q.errorMessage>>
    ELSE IF q.explanation # "" THEN <<q.explanation>>
    ELSE <<"Found ", q.results.count, " results.">>

HistoryPair(q) ==
    <<[role |-> "user", content |-> <<q.naturalQuery>>],
      [role |-> "assistant", content |-> Counterpart(q)]>>

\* history = previousQueries.reverse().map(q => [...]).flat(), [] without a
\* conversationId
AssembleHistory(u, conv) ==
    IF conv = NoConv THEN <<>>
    ELSE LET previousQueries == Reverse(PreviousQueries(u, conv))
         IN  Flat([j \in DOMAIN previousQueries |-> HistoryPair(previousQueries[j])])

\* the data of the 200 response
PlanData(r, plan) ==
    [conversationId |->
         IF r.conversationId # NoConv THEN r.conversationId
         ELSE FreshId(ConvsInUse \cup {conversationId}),
     query |-> r.query,
     mql |-> plan.mql_query,
     explanation |-> plan.explanation,
     needsConfirmation |-> plan.needs_confirmation,
     type |-> plan.type]

\* getQueryPlan reading the plan of a failed call with `plan?.` and no throw
PlanResponseSwallowed(r, outcome) ==
    IF ValidationError(r.query) # ""
    THEN Response(400, ValidationError(r.query), "", NoData)
    ELSE Response(200, "", "",
             PlanData(r, IF outcome.ok THEN outcome.data ELSE MalformedReply(FALSE)))

\* the response of getQueryPlan to request r when the call of the translator
\* comes to outcome
PlanResponse(r, outcome) ==
    IF ValidationError(r.query) # ""
    THEN Response(400, ValidationError(r.query), "", NoData)
    ELSE IF outcome.ok
    THEN Response(200, "", "", PlanData(r, outcome.data))
    ELSE Response(500, "Error generating query plan", outcome.error, NoData)

\* history, permissions: what the handler packaged for nlpService.getPlan,
\* NoData when it returned before
GetQueryPlan(i, outcome) ==
    /\ i \in DOMAIN planReqs
    /\ planReqs[i].stage = "sent"
    /\ LET r == planReqs[i]
           valid == ValidationError(r.query) = ""
       IN  planReqs' = SetAt(planReqs, i,
               [r EXCEPT !.stage = "done",
                         !.resp = PlanResponse(r, outcome),
                         !.history = IF valid THEN AssembleHistory(r.user, r.conversationId)
                                     ELSE NoData,
                         !.permissions = IF valid THEN Permissions(r.user) ELSE NoData])
    /\ UNCHANGED <<otherReqs, backendVars, frontendVars, execReqs>>

-----------------------------------------------------------------------------
(* executeConfirmedQuery *)

ExecuteConfirmedQuery(i, outcome) ==
    /\ i \in DOMAIN execReqs
    /\ execReqs[i].stage = "sent"
    /\ LET r == execReqs[i]
           \* posted: the mql of the POST /execute-mql made for the request
           done(resp, mql) ==
               execReqs' = SetAt(execReqs, i,
                   [r EXCEPT !.stage = "done", !.resp = resp, !.posted = mql])
           convId == IF r.conversationId # NoConv THEN r.conversationId
                     ELSE FreshId(ConvsInUse \cup {conversationId})
       IN  IF r.mql = NoMql
           THEN /\ done(Response(400, "No MQL query provided for execution", "", NoData),
                        NoMql)
                /\ UNCHANGED turns
           ELSE IF outcome.ok
           THEN LET x == outcome.data IN
                /\ Len(turns) < MaxTurns
                /\ turns' = Append(turns,
                      Turn(FreshId(IssuedIds), r.user, convId,
                           IF r.naturalQuery # "" THEN r.naturalQuery
                           ELSE "Confirmed Query",
                           r.mql,
                           IF x.explanation # "" THEN x.explanation
                           ELSE "Found results.",
                           x.results, TRUE, ""))
                /\ done(Response(200, "", "",
                           [conversationId |-> convId,
                            results |-> x.results,
                            resultCount |-> Len(x.results),
                            explanation |-> x.explanation,
                            historyId |-> FreshId(IssuedIds)]),
                        r.mql)
           ELSE /\ done(Response(500, "Error executing confirmed query",
                                  outcome.error, NoData),
                        r.mql)
                /\ UNCHANGED turns
    /\ UNCHANGED <<otherReqs, policies, users, deletedIds, frontendVars, planReqs>>

-----------------------------------------------------------------------------
(* executeQuery *)

\* the same with the error of the failed write in the place of the error caught
FailureResponseMasked(error, historyError) ==
    Response(500, "Error executing query",
             IF historyError # "" THEN historyError ELSE error, NoData)

\* the response of the catch: error is the message of the error caught,
\* historyError the one of the failed write of the failed Turn ("" if it was
\* written), which is logged
FailureResponse(error, historyError) ==
    Response(500, "Error executing query", error, NoData)

\* the ValidationError QueryHistory.create throws (a required path missing, a
\* provider outside the enum) or the error of a store that is down
StoreError == "QueryHistory validation failed"

\* stored: whether the QueryHistory.create calls of the request succeed
ExecuteQueryStoring(i, outcome, stored) ==
    /\ i \in DOMAIN directReqs
    /\ directReqs[i].stage = "sent"
    /\ LET r == directReqs[i]
           done(resp, hist, perms) ==
               directReqs' = SetAt(directReqs, i,
                   [r EXCEPT !.stage = "done", !.resp = resp, !.history = hist,
                             !.permissions = perms])
           \* conversationId || uuidv4(), in the body and again in the catch
           convId == IF r.conversationId # NoConv THEN r.conversationId
                     ELSE FreshId(ConvsInUse \cup {conversationId})
       IN  IF ValidationError(r.query) # ""
           THEN /\ done(Response(400, ValidationError(r.query), "", NoData), NoData, NoData)
                /\ UNCHANGED turns
           ELSE /\ Len(turns) < MaxHistory
                /\ IF outcome.ok /\ stored
                   THEN LET nlpResponse == outcome.data IN
                        /\ turns' = Append(turns,
                              Turn(FreshId(IssuedIds), r.user, convId, r.query,
                                   nlpResponse.mql_query, nlpResponse.explanation,
                                   nlpResponse.results, nlpResponse.success,
                                   nlpResponse.error))
                        /\ done(Response(200, "", "",
                                   [conversationId |-> convId,
                                    query |-> r.query,
                                    mql |-> nlpResponse.mql_query,
                                    results |-> nlpResponse.results,
                                    resultCount |-> Len(nlpResponse.results),
                                    explanation |-> nlpResponse.explanation,
                                    type |-> nlpResponse.type,
                                    historyId |-> FreshId(IssuedIds)]),
                                AssembleHistory(r.user, convId), Permissions(r.user))
                   ELSE \* catch (error): the Error of the call, or the one of the write
                        LET error == IF outcome.ok THEN StoreError ELSE outcome.error IN
                        /\ turns' = IF stored
                                     THEN Append(turns,
                                            Turn(FreshId(IssuedIds), r.user, convId, r.query,
                                                 NoMql, "", <<>>, FALSE, error))
                                     ELSE turns
                        /\ done(FailureResponse(error, IF stored THEN "" ELSE StoreError),
                                AssembleHistory(r.user, convId), Permissions(r.user))
    /\ UNCHANGED <<policies, users, deletedIds, frontendVars, planReqs, execReqs,
                   deleteReqs, readReqs>>

\* executeQuery with a store that takes the writes
ExecuteQuery(i, outcome) == ExecuteQueryStoring(i, outcome, TRUE)

-----------------------------------------------------------------------------
(* deleteQuery *)

\* QueryHistory.findOne({_id: req.params.id})
FindOfAnyUser(u, id) == SelectSeq(turns, LAMBDA t : t._id = id)

\* QueryHistory.findOne({_id: req.params.id, userId: req.user.id})
FindOwn(u, id) == SelectSeq(turns, LAMBDA t : t._id = id /\ t.userId = u)

\* the same without `if (!query)`: query.deleteOne() of null throws
DeleteResponseUnchecked(found) ==
    IF found = <<>>
    THEN Response(500, "Error deleting query", "Cannot read properties of null", NoData)
    ELSE Response(200, "Query deleted successfully", "", NoData)

\* 404 when findOne gave null, 200 after the deleteOne
DeleteResponse(found) ==
    IF found = <<>>
    THEN Response(404, "Query not found", "", NoData)
    ELSE Response(200, "Query deleted successfully", "", NoData)

\* QueryHistory.deleteMany({conversationId: query.conversationId})
DeleteMany(query) == SelectSeq(turns, LAMBDA t : t.conversationId # query.conversationId)

\* query.deleteOne(): the collection without the document
DeleteOne(query) == SelectSeq(turns, LAMBDA t : t._id # query._id)

DeleteQuery(i) ==
    /\ i \in DOMAIN deleteReqs
    /\ deleteReqs[i].stage = "sent"
    /\ LET r == deleteReqs[i]
           found == FindOwn(r.user, r.id)
       IN  /\ deleteReqs' = SetAt(deleteReqs, i,
                  [r EXCEPT !.stage = "done", !.resp = DeleteResponse(found)])
           /\ IF found = <<>>
              THEN UNCHANGED <<turns, deletedIds>>
              ELSE /\ turns' = DeleteOne(found[1])
                   /\ deletedIds' = deletedIds \cup {found[1]._id}
    /\ UNCHANGED <<policies, users, frontendVars, planReqs, execReqs, directReqs, readReqs>>

-----------------------------------------------------------------------------
(* getHistory, getConversation *)

ReadRequest(u, kind, limit, skip, conv) ==
    [user |-> u, kind |-> kind, limit |-> limit, skip |-> skip, conversationId |-> conv,
     stage |-> "sent", resp |-> NoResponse]

\* QueryHistory.find({userId}).sort({timestamp: -1}); turns is in timestamp order
UserTurns(u) == Reverse(SelectSeq(turns, LAMBDA t : t.userId = u))

\* .limit(n): n documents at most, every document for 0 (MongoDB: a limit of
\* 0 is no limit)
Limit(s, n) == IF n = 0 THEN s ELSE Slice(s, 0, n)

\* .skip(n)
Skip(s, n) == Slice(s, n, Len(s))

\* .select('-results.sample')
WithoutSample(t) == [t EXCEPT !.results = [count |-> t.results.count]]

\* .limit(limit).skip(skip): the cursor skips first, whatever the order of the calls
HistoryPage(u, limit, skip) ==
    LET page == Limit(Skip(UserTurns(u), skip), limit)
    IN  [j \in DOMAIN page |-> WithoutSample(page[j])]

\* QueryHistory.countDocuments({userId})
TotalOf(u) == Len(UserTurns(u))

GetHistory(i) ==
    /\ i \in DOMAIN readReqs
    /\ readReqs[i].stage = "sent"
    /\ readReqs[i].kind = "history"
    /\ LET r == readReqs[i]
       IN  readReqs' = SetAt(readReqs, i,
               [r EXCEPT !.stage = "done",
                         !.resp = Response(200, "", "",
                            [history |-> HistoryPage(r.user, r.limit, r.skip),
                             pagination |->
                                [total |-> TotalOf(r.user),
                                 limit |-> r.limit,
                                 skip |-> r.skip,
                                 hasMore |-> TotalOf(r.user) > r.skip + r.limit]])])
    /\ UNCHANGED <<backendVars, frontendVars, planReqs, execReqs, directReqs, deleteReqs>>

GetConversation(i) ==
    /\ i \in DOMAIN readReqs
    /\ readReqs[i].stage = "sent"
    /\ readReqs[i].kind = "conversation"
    /\ LET r == readReqs[i]
           conversation == ConversationTurns(r.user, r.conversationId)
       IN  readReqs' = SetAt(readReqs, i,
               [r EXCEPT !.stage = "done",
                         !.resp = IF conversation = <<>>
                                  THEN Response(404, "Conversation not found", "", NoData)
                                  ELSE Response(200, "", "",
                                          [conversationId |-> r.conversationId,
                                           queries |-> conversation])])
    /\ UNCHANGED <<backendVars, frontendVars, planReqs, execReqs, directReqs, deleteReqs>>

-----------------------------------------------------------------------------
(* ChatInterface *)

NoCount == {}       \* resultCount undefined

Message(id, isUser, q, mql, expl, nc, t, err) ==
    [id |-> id, isUser |-> isUser, query |-> q, mql |-> mql, explanation |-> expl,
     needsConfirmation |-> nc, type |-> t, isExecuting |-> FALSE, error |-> err,
     resultCount |-> NoCount]

NoPlan == [id |-> 0]

MessageIds(ms) == {ms[i].id : i \in DOMAIN ms}

\* message ids something still refers to
HeldIds ==
    (IF pendingPlan = NoPlan THEN {} ELSE {pendingPlan.id})
        \cup {execReqs[i].clicked : i \in DOMAIN execReqs}
        \cup {execReqs[i].plan : i \in DOMAIN execReqs}

LiveIds == MessageIds(messages) \cup HeldIds

\* InputBox: loading = planMutation.isPending || executeMutation.isPending
Loading ==
    \/ \E i \in DOMAIN planReqs : planReqs[i].ui
    \/ \E i \in DOMAIN execReqs : execReqs[i].ui /\ execReqs[i].latest

\* {...msg, ...patch}
Spread(msg, patch) ==
    [f \in DOMAIN msg |-> IF f \in DOMAIN patch THEN patch[f] ELSE msg[f]]

\* prev.map((msg, idx) => idx === prev.length - 1 ? {...msg, ...patch} : msg)
MapLast(ms, patch) ==
    [j \in DOMAIN ms |-> IF j = Len(ms) THEN Spread(ms[j], patch) ELSE ms[j]]

\* handleSendQuery up to the await: the user message, the plan request
SendQuery(q) ==
    /\ ~Loading
    /\ Len(messages) + 2 <= MaxMsgs
    /\ messages' = Append(messages,
           Message(FreshId(LiveIds), TRUE, q, NoMql, "", FALSE, "", FALSE))
    /\ planReqs' = Append(planReqs, PlanRequest(SessionUser, q, conversationId, TRUE))
    /\ UNCHANGED <<otherReqs, backendVars, conversationId, pendingPlan, selectedConvId,
                   pendingOrigin, execReqs>>

\* the message handleSendQuery appends for the answer to its plan request: the
\* assistantMessage of a success, the errorMessage of the catch, whose text is
\* error.message, the `message` of the response body (api.js interceptor)
PlanMessage(id, resp) ==
    IF resp.status = 200
    THEN Message(id, FALSE, resp.data.query, resp.data.mql, resp.data.explanation,
                 resp.data.needsConfirmation, resp.data.type, FALSE)
    ELSE Message(id, FALSE, "", NoMql, resp.message, FALSE, "", TRUE)

\* handleSendQuery after the await
PlanResolve(i) ==
    /\ i \in DOMAIN planReqs
    /\ planReqs[i].ui
    /\ planReqs[i].stage = "done"
    /\ LET resp == planReqs[i].resp
           assistantMessage == PlanMessage(FreshId(LiveIds), resp)
           errorMessage == PlanMessage(FreshId(LiveIds), resp)
       IN  IF resp.status = 200
           THEN /\ messages' = Append(messages, assistantMessage)
                /\ pendingPlan' = IF resp.data.needsConfirmation THEN assistantMessage
                                  ELSE pendingPlan
                /\ pendingOrigin' =
                      IF resp.data.needsConfirmation
                      THEN Origin(planReqs[i].conversationId, planReqs[i].permissions, TRUE)
                      ELSE pendingOrigin
           ELSE /\ messages' = Append(messages, errorMessage)
                /\ UNCHANGED <<pendingPlan, pendingOrigin>>
    /\ planReqs' = RemoveAt(planReqs, i)
    /\ UNCHANGED <<otherReqs, backendVars, conversationId, selectedConvId, execReqs>>

\* MessageBubble: "Run Query" and "Cancel" are rendered on every message with
\* needsConfirmation and are disabled while that message isExecuting
ButtonsEnabled(m) == m.needsConfirmation /\ ~m.isExecuting

\* handleConfirmQuery up to the await, from the button of messages[k]
ConfirmQuery(k) ==
    /\ k \in DOMAIN messages
    /\ ButtonsEnabled(messages[k])
    /\ pendingPlan # NoPlan
    /\ Len(execReqs) < MaxExec
    /\ messages' = MapLast(messages,
           [needsConfirmation |-> FALSE, isExecuting |-> TRUE])
    /\ execReqs' = Append(
           [j \in DOMAIN execReqs |-> [execReqs[j] EXCEPT !.latest = FALSE]],
           ExecRequest(SessionUser, pendingPlan.mql, pendingPlan.query, conversationId,
                       TRUE, messages[k].id, pendingPlan.id, pendingOrigin))
    /\ UNCHANGED <<otherReqs, backendVars, conversationId, pendingPlan, selectedConvId,
                   pendingOrigin, planReqs>>

\* handleConfirmQuery with no pending plan: `if (!pendingPlan) return`
ConfirmNothing(k) ==
    /\ k \in DOMAIN messages
    /\ ButtonsEnabled(messages[k])
    /\ pendingPlan = NoPlan
    /\ UNCHANGED vars

\* handleConfirmQuery after the await
ConfirmResolve(i) ==
    /\ i \in DOMAIN execReqs
    /\ execReqs[i].ui
    /\ execReqs[i].stage = "done"
    /\ LET resp == execReqs[i].resp
       IN  messages' =
             IF resp.status = 200
             THEN MapLast(messages,
                    [isExecuting |-> FALSE,
                     resultCount |-> {resp.data.resultCount},
                     explanation |-> "Query confirmed."])
             ELSE MapLast(messages,
                    [isExecuting |-> FALSE,
                     error |-> TRUE,
                     explanation |-> "Execution failed"])
    /\ pendingPlan' = NoPlan
    /\ pendingOrigin' = NoOrigin
    /\ execReqs' = RemoveAt(execReqs, i)
    /\ UNCHANGED <<otherReqs, backendVars, conversationId, selectedConvId, planReqs>>

\* handleCancelQuery, from the button of messages[k]
CancelQuery(k) ==
    /\ k \in DOMAIN messages
    /\ ButtonsEnabled(messages[k])
    /\ messages' = MapLast(messages,
           [needsConfirmation |-> FALSE, explanation |-> "Query cancelled by user."])
    /\ pendingPlan' = NoPlan
    /\ pendingOrigin' = NoOrigin
    /\ UNCHANGED <<otherReqs, backendVars, conversationId, selectedConvId, planReqs, execReqs>>

\* demoTemplates.js: the shapes of the pre-built responses
DemoMql == [collection |-> "orders", operation |-> "aggregate", fields |-> {}]

DemoTemplates ==
    {[query |-> "demo", type |-> "conversational", mql_query |-> NoMql,
      needs_confirmation |-> FALSE, success |-> TRUE],
     [query |-> "demo", type |-> "database", mql_query |-> DemoMql,
      needs_confirmation |-> TRUE, success |-> TRUE],
     [query |-> "demo", type |-> "visualization", mql_query |-> DemoMql,
      needs_confirmation |-> TRUE, success |-> TRUE],
     [query |-> "demo", type |-> "conversational", mql_query |-> NoMql,
      needs_confirmation |-> FALSE, success |-> FALSE]}

\* handleDemoTemplate; the template panel is rendered while messages is empty
DemoTemplate(t) ==
    /\ messages = <<>>
    /\ LET ids == FreshIds(LiveIds, 2)
           userMessage == Message(ids[1], TRUE, t.query, NoMql, "", FALSE, "", FALSE)
           assistantMessage ==
               Message(ids[2], FALSE, t.query, t.mql_query, "explained",
                       t.needs_confirmation, t.type, ~t.success)
       IN  /\ messages' = <<userMessage, assistantMessage>>
           /\ pendingPlan' = IF t.needs_confirmation /\ t.mql_query # NoMql
                             THEN assistantMessage ELSE pendingPlan
           /\ pendingOrigin' = IF t.needs_confirmation /\ t.mql_query # NoMql
                               THEN Origin(conversationId, NoData, FALSE)
                               ELSE pendingOrigin
    /\ UNCHANGED <<otherReqs, backendVars, conversationId, selectedConvId, planReqs, execReqs>>

\* the effect "Load history when selectedConversationId changes"
HistoryMessages(qs, ids) ==
    [j \in 1..(2 * Len(qs)) |->
        LET q == qs[(j + 1) \div 2]
        IN  IF j % 2 = 1
            THEN Message(ids[j], TRUE, q.naturalQuery, NoMql, "", FALSE, "", FALSE)
            ELSE [Message(ids[j], FALSE, q.naturalQuery, q.generatedMQL,
                          IF q.errorMessage # "" THEN "Error" ELSE "Found results.",
                          FALSE, "", ~q.success)
                    EXCEPT !.resultCount = {q.results.count}]]

\* HistorySidebar: a click on an item of the user's history; useConversation
\* loads the conversation and the effect replaces messages and conversationId
SelectConversation(c) ==
    /\ c # selectedConvId
    /\ ConversationTurns(SessionUser, c) # <<>>
    /\ selectedConvId' = c
    /\ LET qs == ConversationTurns(SessionUser, c)
       IN  messages' = HistoryMessages(qs, FreshIds(HeldIds, 2 * Len(qs)))
    /\ conversationId' = c
    /\ UNCHANGED <<otherReqs, backendVars, pendingPlan, pendingOrigin, planReqs, execReqs>>

\* HistorySidebar: "New Chat" is onSelectConversation(null)
NewChat ==
    /\ selectedConvId # 0
    /\ selectedConvId' = 0
    /\ UNCHANGED <<otherReqs, backendVars, messages, conversationId, pendingPlan, pendingOrigin,
                   planReqs, execReqs>>

\* the page is loaded again: ChatInterface is mounted afresh, the effect
\* "Initialize conversation ID if not set" draws a new id; the requests of the
\* old page stay with the server, their answers are dropped
Reload ==
    /\ messages' = <<>>
    /\ pendingPlan' = NoPlan
    /\ pendingOrigin' = NoOrigin
    /\ selectedConvId' = 0
    /\ planReqs' = SelectSeq(planReqs, LAMBDA r : ~r.ui)
    /\ execReqs' = [j \in DOMAIN execReqs |->
                      [execReqs[j] EXCEPT !.ui = FALSE, !.latest = FALSE]]
    /\ conversationId' =
          FreshId({turns[i].conversationId : i \in DOMAIN turns}
                    \cup {execReqs[i].conversationId : i \in DOMAIN execReqs})
    /\ UNCHANGED <<otherReqs, backendVars>>

-----------------------------------------------------------------------------
(* Requests posted to the API by a client other than the ChatInterface; *)
(* query.routes.js puts only `protect` in front of the handlers          *)

ApiConvs == ConvsInUse \cup {conversationId, NoConv}

ApiPlan(u, q, conv) ==
    /\ ApiInFlight < MaxApi
    /\ planReqs' = Append(planReqs, PlanRequest(u, q, conv, FALSE))
    /\ UNCHANGED <<otherReqs, backendVars, frontendVars, execReqs>>

ApiExecuteConfirmed(u, mql, q, conv) ==
    /\ ApiInFlight < MaxApi
    /\ Len(execReqs) < MaxExec
    /\ execReqs' = Append(execReqs, ExecRequest(u, mql, q, conv, FALSE, 0, 0, NoOrigin))
    /\ UNCHANGED <<otherReqs, backendVars, frontendVars, planReqs>>

ApiExecute(u, q, conv) ==
    /\ ApiInFlight < MaxApi
    /\ directReqs' = Append(directReqs, DirectRequest(u, q, conv))
    /\ UNCHANGED <<backendVars, frontendVars, planReqs, execReqs, deleteReqs, readReqs>>

ApiDelete(u, id) ==
    /\ Len(deleteReqs) < MaxDeletes
    /\ deleteReqs' = Append(deleteReqs, DeleteRequest(u, id))
    /\ UNCHANGED <<backendVars, frontendVars, planReqs, execReqs, directReqs, readReqs>>

DirectAnswered(i) ==
    /\ i \in DOMAIN directReqs
    /\ directReqs[i].stage = "done"
    /\ directReqs' = RemoveAt(directReqs, i)
    /\ UNCHANGED <<backendVars, frontendVars, planReqs, execReqs, deleteReqs, readReqs>>

DeleteAnswered(i) ==
    /\ i \in DOMAIN deleteReqs
    /\ deleteReqs[i].stage = "done"
    /\ deleteReqs' = RemoveAt(deleteReqs, i)
    /\ UNCHANGED <<backendVars, frontendVars, planReqs, execReqs, directReqs, readReqs>>

ApiHistory(u, limit, skip) ==
    /\ Len(readReqs) < MaxApi
    /\ readReqs' = Append(readReqs, ReadRequest(u, "history", limit, skip, NoConv))
    /\ UNCHANGED <<backendVars, frontendVars, planReqs, execReqs, directReqs, deleteReqs>>

ApiConversation(u, conv) ==
    /\ Len(readReqs) < MaxApi
    /\ readReqs' = Append(readReqs, ReadRequest(u, "conversation", 0, 0, conv))
    /\ UNCHANGED <<backendVars, frontendVars, planReqs, execReqs, directReqs, deleteReqs>>

ReadAnswered(i) ==
    /\ i \in DOMAIN readReqs
    /\ readReqs[i].stage = "done"
    /\ readReqs' = RemoveAt(readReqs, i)
    /\ UNCHANGED <<backendVars, frontendVars, planReqs, execReqs, directReqs, deleteReqs>>

\* the answer reaches a client that is no ChatInterface handler
PlanAnswered(i) ==
    /\ i \in DOMAIN planReqs
    /\ ~planReqs[i].ui
    /\ planReqs[i].stage = "done"
    /\ planReqs' = RemoveAt(planReqs, i)
    /\ UNCHANGED <<otherReqs, backendVars, frontendVars, execReqs>>

ExecAnswered(i) ==
    /\ i \in DOMAIN execReqs
    /\ ~execReqs[i].ui
    /\ execReqs[i].stage = "done"
    /\ execReqs' = RemoveAt(execReqs, i)
    /\ UNCHANGED <<otherReqs, backendVars, frontendVars, planReqs>>

-----------------------------------------------------------------------------
(* Specification *)

\* registered users, bob made an administrator (set-admin.js), no policy yet
NoPolicies == [n \in PolicyNames |-> Absent]
Registered ==
    [u \in Users |->
        [role |-> IF u = "bob" THEN "admin" ELSE "user", rolePolicy |-> NoPolicy]]

\* a freshly mounted ChatInterface, no request in flight, no history
Fresh ==
    /\ turns = <<>>
    /\ messages = <<>>
    /\ conversationId = 1
    /\ pendingPlan = NoPlan
    /\ selectedConvId = 0
    /\ pendingOrigin = NoOrigin
    /\ planReqs = <<>>
    /\ execReqs = <<>>
    /\ directReqs = <<>>
    /\ deleteReqs = <<>>
    /\ readReqs = <<>>
    /\ deletedIds = {}

Init ==
    /\ policies = NoPolicies
    /\ users = Registered
    /\ Fresh

\* the same after seed-rbac.js has run
SeededInit ==
    /\ policies = SeededPolicies(NoPolicies)
    /\ users = SeededUsers(Registered)
    /\ Fresh

AdminNext ==
    \/ SeedRBAC
    \/ \E a \in Users, n \in PolicyNames, b \in PolicyBodies : CreatePolicy(a, n, b)
    \/ \E a \in Users, n \in PolicyNames, b \in PolicyBodies : UpdatePolicy(a, n, b)
    \/ \E a \in Users, u \in Users, r \in Roles, n \in PolicyNames :
          UpdateUserRole(a, u, r, n)

ServerNext ==
    \/ \E i \in DOMAIN planReqs, o \in PlanOutcomes : GetQueryPlan(i, o)
    \/ \E i \in DOMAIN execReqs, o \in ExecOutcomes : ExecuteConfirmedQuery(i, o)
    \/ \E i \in DOMAIN directReqs, o \in TranslateOutcomes, stored \in BOOLEAN :
          ExecuteQueryStoring(i, o, stored)
    \/ \E i \in DOMAIN deleteReqs : DeleteQuery(i)
    \/ \E i \in DOMAIN readReqs : GetHistory(i)
    \/ \E i \in DOMAIN readReqs : GetConversation(i)

ChatNext ==
    \/ \E q \in Queries : SendQuery(q)
    \/ \E i \in DOMAIN planReqs : PlanResolve(i)
    \/ \E k \in DOMAIN messages : ConfirmQuery(k)
    \/ \E k \in DOMAIN messages : ConfirmNothing(k)
    \/ \E i \in DOMAIN execReqs : ConfirmResolve(i)
    \/ \E k \in DOMAIN messages : CancelQuery(k)
    \/ \E t \in DemoTemplates : DemoTemplate(t)
    \/ \E c \in ConvsInUse : SelectConversation(c)
    \/ NewChat
    \/ Reload

ApiNext ==
    \/ \E u \in Users, q \in ApiQueries, c \in ApiConvs : ApiPlan(u, q, c)
    \/ \E u \in Users, m \in Mqls \cup {NoMql}, q \in Queries \cup {""}, c \in ApiConvs :
          ApiExecuteConfirmed(u, m, q, c)
    \/ \E u \in Users, q \in ApiQueries, c \in ApiConvs : ApiExecute(u, q, c)
    \/ \E u \in Users, id \in 1..MaxHistory : ApiDelete(u, id)
    \/ \E i \in DOMAIN planReqs : PlanAnswered(i)
    \/ \E i \in DOMAIN execReqs : ExecAnswered(i)
    \/ \E i \in DOMAIN directReqs : DirectAnswered(i)
    \/ \E i \in DOMAIN deleteReqs : DeleteAnswered(i)
    \/ \E u \in Users, l \in 0..MaxPage, k \in 0..MaxPage : ApiHistory(u, l, k)
    \/ \E u \in Users, c \in ApiConvs : ApiConversation(u, c)
    \/ \E i \in DOMAIN readReqs : ReadAnswered(i)

Next == AdminNext \/ ServerNext \/ ChatNext \/ ApiNext

Spec == Init /\ [][Next]_vars

-----------------------------------------------------------------------------
(* The confirmation gate: one chat; the translator answers with a          *)
(* conversational reply, a proposal or a timeout, the executor with rows   *)
(* or a failure; another client posts to execute-confirmed; demo templates *)

Timeout == Failed("NLP service request timed out. Query may be too complex.")
Unavailable == Failed("NLP service is not available. Please ensure it is running.")
Rows == Replied([results |-> ResultRows(1), explanation |-> "rows"])

GateOutcomes ==
    {Replied(PlanReply("conversational", NoMql, FALSE)),
     Replied(PlanReply("database", MqlNames, TRUE)),
     Replied(PlanReply("database", MqlPurge, TRUE)),
     Timeout}

GateNext ==
    \/ \E i \in DOMAIN planReqs, o \in GateOutcomes : GetQueryPlan(i, o)
    \/ \E i \in DOMAIN execReqs, o \in {Rows, Unavailable} : ExecuteConfirmedQuery(i, o)
    \/ SendQuery("q1")
    \/ \E i \in DOMAIN planReqs : PlanResolve(i)
    \/ \E k \in DOMAIN messages : ConfirmQuery(k)
    \/ \E k \in DOMAIN messages : ConfirmNothing(k)
    \/ \E i \in DOMAIN execReqs : ConfirmResolve(i)
    \/ \E k \in DOMAIN messages : CancelQuery(k)
    \/ \E t \in DemoTemplates : DemoTemplate(t)
    \/ ApiExecuteConfirmed("bob", MqlEmails, "", NoConv)
    \/ \E i \in DOMAIN execReqs : ExecAnswered(i)

GateSpec == Init /\ [][GateNext]_vars

(* The chat alone *)

ChatOnlyNext ==
    \/ \E i \in DOMAIN planReqs, o \in GateOutcomes : GetQueryPlan(i, o)
    \/ \E i \in DOMAIN execReqs, o \in {Rows, Unavailable} : ExecuteConfirmedQuery(i, o)
    \/ \E q \in Queries : SendQuery(q)
    \/ \E i \in DOMAIN planReqs : PlanResolve(i)
    \/ \E k \in DOMAIN messages : ConfirmQuery(k)
    \/ \E k \in DOMAIN messages : ConfirmNothing(k)
    \/ \E i \in DOMAIN execReqs : ConfirmResolve(i)
    \/ \E k \in DOMAIN messages : CancelQuery(k)

ChatSpec == Init /\ [][ChatOnlyNext]_vars

(* Conversations: one chat whose page is reloaded and whose user goes back *)
(* to conversations of the history                                         *)

ConvNext ==
    \/ \E i \in DOMAIN planReqs :
          GetQueryPlan(i, Replied(PlanReply("database", MqlNames, TRUE)))
    \/ \E i \in DOMAIN execReqs : ExecuteConfirmedQuery(i, Rows)
    \/ SendQuery("q1")
    \/ \E i \in DOMAIN planReqs : PlanResolve(i)
    \/ \E k \in DOMAIN messages : ConfirmQuery(k)
    \/ \E i \in DOMAIN execReqs : ConfirmResolve(i)
    \/ \E c \in ConvsInUse : SelectConversation(c)
    \/ NewChat
    \/ Reload

ConvSpec == Init /\ [][ConvNext]_vars

(* Authorization: on a seeded store, the chat of alice while bob assigns  *)
(* her a policy and edits the Manager policy                              *)

AuthNext ==
    \/ \E n \in {"Analyst", "Manager"} : UpdateUserRole("bob", "alice", n, n)
    \/ \E p \in {ManagerPermissions, OrdersPermissions} :
          UpdatePolicy("bob", "Manager", [permissions |-> p, isDefault |-> FALSE])
    \/ \E i \in DOMAIN planReqs, m \in Mqls :
          GetQueryPlan(i, Replied(PlanReply("database", m, TRUE)))
    \/ \E i \in DOMAIN execReqs, o \in {Rows, Unavailable} : ExecuteConfirmedQuery(i, o)
    \/ SendQuery("q1")
    \/ \E i \in DOMAIN planReqs : PlanResolve(i)
    \/ \E k \in DOMAIN messages : ConfirmQuery(k)
    \/ \E i \in DOMAIN execReqs : ConfirmResolve(i)

AuthSpec == SeededInit /\ [][AuthNext]_vars

(* The policy store: any administration, and plan requests of both users *)

PolicyNext ==
    \/ SeedRBAC
    \/ \E a \in Users, n \in PolicyNames, b \in PolicyBodies : CreatePolicy(a, n, b)
    \/ \E n \in PolicyNames, b \in PolicyBodies : UpdatePolicy("bob", n, b)
    \/ \E u \in Users, n \in PolicyNames : UpdateUserRole("bob", u, "Analyst", n)
    \/ \E u \in Users : ApiPlan(u, "q1", NoConv)
    \/ \E i \in DOMAIN planReqs :
          GetQueryPlan(i, Replied(PlanReply("database", MqlNames, TRUE)))
    \/ \E i \in DOMAIN planReqs : PlanAnswered(i)

PolicySpec == Init /\ [][PolicyNext]_vars

(* The translator: one chat whose plan requests meet every failure of the *)
(* call and replies whose flag does not follow their type                 *)

ServiceError == Failed("NLP service error")
Broken == Failed("Failed to communicate with NLP service")

PlanFailures == {Unavailable, Timeout, ServiceError, Broken}

TranslatorOutcomes ==
    PlanFailures
        \cup {Replied(MalformedReply(nc)) : nc \in BOOLEAN}
        \cup {Replied(PlanReply("conversational", NoMql, nc)) : nc \in BOOLEAN}
        \cup {Replied(PlanReply("database", MqlNames, nc)) : nc \in BOOLEAN}

TranslatorNext ==
    \/ \E i \in DOMAIN planReqs, o \in TranslatorOutcomes : GetQueryPlan(i, o)
    \/ \E i \in DOMAIN execReqs : ExecuteConfirmedQuery(i, Rows)
    \/ SendQuery("q1")
    \/ \E i \in DOMAIN planReqs : PlanResolve(i)
    \/ \E k \in DOMAIN messages : ConfirmQuery(k)
    \/ \E i \in DOMAIN execReqs : ConfirmResolve(i)
    \/ \E k \in DOMAIN messages : CancelQuery(k)

TranslatorSpec == Init /\ [][TranslatorNext]_vars

(* The history: both users ask through POST /execute in two conversations, *)
(* each question different from the ones before, and request plans          *)

Translated == Replied(TranslateReply(TRUE, "", ResultRows(1)))

\* the text of the k-th question
Question(k) == ToString(k)

HistNext ==
    \/ \E w \in {<<"alice", 1>>, <<"bob", 1>>, <<"alice", 2>>} :
          ApiExecute(w[1], Question(Len(turns) + 1), w[2])
    \/ \E i \in DOMAIN directReqs : ExecuteQuery(i, Translated)
    \/ \E i \in DOMAIN directReqs : DirectAnswered(i)
    \/ \E c \in {NoConv, 1, 2} : ApiPlan("alice", "q1", c)
    \/ \E i \in DOMAIN planReqs :
          GetQueryPlan(i, Replied(PlanReply("database", MqlNames, TRUE)))
    \/ \E i \in DOMAIN planReqs : PlanAnswered(i)

HistSpec == Init /\ [][HistNext]_vars

(* What a Turn holds: alice asks through POST /execute, the translator    *)
(* replies with any success flag and error or the call fails, and a plan   *)
(* request reads the conversation                                          *)

RenderNext ==
    \/ Len(turns) < MaxRendered /\ ApiExecute("alice", Question(Len(turns) + 1), 1)
    \/ \E i \in DOMAIN directReqs, o \in TranslateOutcomes \ {Broken, ServiceError} :
          ExecuteQuery(i, o)
    \/ \E i \in DOMAIN directReqs : DirectAnswered(i)
    \/ ApiPlan("alice", "q1", 1)
    \/ \E i \in DOMAIN planReqs :
          GetQueryPlan(i, Replied(PlanReply("database", MqlNames, TRUE)))
    \/ \E i \in DOMAIN planReqs : PlanAnswered(i)

RenderSpec == Init /\ [][RenderNext]_vars

(* Validation: plan and direct execute requests with an empty text, texts *)
(* of 5000 and 5001 characters and an ordinary one, the translator         *)
(* answering or timing out                                                 *)

ValidNext ==
    \/ \E q \in {"", "max", "long", "q1"} :
          Len(turns) < MaxRendered /\ ApiExecute("alice", q, 1)
    \/ \E i \in DOMAIN directReqs, o \in {Translated, Timeout} : ExecuteQuery(i, o)
    \/ \E i \in DOMAIN directReqs : DirectAnswered(i)
    \/ \E q \in {"", "max", "long", "q1"} : ApiPlan("alice", q, 1)
    \/ \E i \in DOMAIN planReqs,
           o \in {Replied(PlanReply("database", MqlNames, TRUE)), Timeout} :
          GetQueryPlan(i, o)
    \/ \E i \in DOMAIN planReqs : PlanAnswered(i)

ValidSpec == Init /\ [][ValidNext]_vars

(* Result samples: confirmed and direct executions whose result lists have *)
(* no row, one row, 100 rows and 101 rows                                   *)

ResultSizes == {0, 1, 100, 101}

ExecutorReply(n) == Replied([results |-> ResultRows(n), explanation |-> "rows"])
TranslatorReply(n) == Replied(TranslateReply(TRUE, "", ResultRows(n)))

SampleNext ==
    \/ ApiExecuteConfirmed("alice", MqlNames, "q1", 1)
    \/ \E i \in DOMAIN execReqs, n \in ResultSizes :
          ExecuteConfirmedQuery(i, ExecutorReply(n))
    \/ \E i \in DOMAIN execReqs : ExecAnswered(i)
    \/ Len(turns) < MaxRendered /\ ApiExecute("alice", "q1", 1)
    \/ \E i \in DOMAIN directReqs, n \in ResultSizes : ExecuteQuery(i, TranslatorReply(n))
    \/ \E i \in DOMAIN directReqs : DirectAnswered(i)

SampleSpec == Init /\ [][SampleNext]_vars

(* Deletion: both users record Turns in one conversation id and ask to     *)
(* delete Turns by id, their own and the other user's                      *)

DeleteNext ==
    \/ \E u \in Users : Cardinality(IssuedIds) < MaxTurns /\ ApiExecute(u, "q1", 1)
    \/ \E i \in DOMAIN directReqs : ExecuteQuery(i, Translated)
    \/ \E i \in DOMAIN directReqs : DirectAnswered(i)
    \/ \E u \in Users, id \in IssuedIds : ApiDelete(u, id)
    \/ \E i \in DOMAIN deleteReqs : DeleteQuery(i)
    \/ \E i \in DOMAIN deleteReqs : DeleteAnswered(i)

DeleteSpec == Init /\ [][DeleteNext]_vars

(* Pages of the history: both users ask through POST /execute and read    *)
(* their history with every limit and skip up to MaxPage                  *)

PageNext ==
    \/ \E u \in Users :
          Len(turns) < MaxRendered /\ ApiExecute(u, Question(Len(turns) + 1), 1)
    \/ \E i \in DOMAIN directReqs : ExecuteQuery(i, Translated)
    \/ \E i \in DOMAIN directReqs : DirectAnswered(i)
    \/ \E u \in Users, l \in 0..MaxPage, k \in 0..MaxPage : ApiHistory(u, l, k)
    \/ \E i \in DOMAIN readReqs : GetHistory(i)
    \/ \E i \in DOMAIN readReqs : ReadAnswered(i)

PageSpec == Init /\ [][PageNext]_vars

(* The store: both users ask through POST /execute while the translator   *)
(* answers or fails and the writes of QueryHistory succeed or fail         *)

StoreNext ==
    \/ \E u \in Users :
          Len(turns) < MaxRendered /\ ApiExecute(u, Question(Len(turns) + 1), 1)
    \/ \E i \in DOMAIN directReqs, o \in {Translated, Timeout, Unavailable},
           stored \in BOOLEAN :
          ExecuteQueryStoring(i, o, stored)
    \/ \E i \in DOMAIN directReqs : DirectAnswered(i)

StoreSpec == Init /\ [][StoreNext]_vars

(* Policy edits: on a seeded store bob edits the Manager policy and       *)
(* assigns the policies, while both users request plans and execute        *)
(* directly                                                                *)

EditNext ==
    \/ \E p \in {ManagerPermissions, OrdersPermissions} :
          UpdatePolicy("bob", "Manager", [permissions |-> p, isDefault |-> FALSE])
    \/ \E u \in Users, n \in {"Analyst", "Manager"} : UpdateUserRole("bob", u, n, n)
    \/ \E u \in Users : ApiPlan(u, "q1", 1)
    \/ \E i \in DOMAIN planReqs :
          GetQueryPlan(i, Replied(PlanReply("database", MqlNames, TRUE)))
    \/ \E i \in DOMAIN planReqs : PlanAnswered(i)
    \/ \E u \in Users : Len(turns) < MaxTurns /\ ApiExecute(u, "q1", 1)
    \/ \E i \in DOMAIN directReqs : ExecuteQuery(i, Translated)
    \/ \E i \in DOMAIN directReqs : DirectAnswered(i)

EditSpec == SeededInit /\ [][EditNext]_vars

(* The query API: every route of query.routes.js requested by a client:   *)
(* alice plans, executes confirmed operations and reads, both users         *)
(* execute directly and delete, all in one conversation id                  *)

QueryApiNext ==
    \/ ApiPlan("alice", "q1", 1)
    \/ \E i \in DOMAIN planReqs :
          GetQueryPlan(i, Replied(PlanReply("database", MqlNames, TRUE)))
    \/ \E i \in DOMAIN planReqs : PlanAnswered(i)
    \/ Cardinality(IssuedIds) < MaxTurns /\ ApiExecuteConfirmed("alice", MqlNames, "q1", 1)
    \/ \E i \in DOMAIN execReqs, o \in {Rows, Unavailable} : ExecuteConfirmedQuery(i, o)
    \/ \E i \in DOMAIN execReqs : ExecAnswered(i)
    \/ \E u \in Users : Cardinality(IssuedIds) < MaxTurns /\ ApiExecute(u, "q1", 1)
    \/ \E i \in DOMAIN directReqs, o \in {Translated, Timeout} : ExecuteQuery(i, o)
    \/ \E i \in DOMAIN directReqs : DirectAnswered(i)
    \/ ApiHistory("alice", 1, 0)
    \/ \E i \in DOMAIN readReqs : GetHistory(i)
    \/ ApiConversation("alice", 1)
    \/ \E i \in DOMAIN readReqs : GetConversation(i)
    \/ \E i \in DOMAIN readReqs : ReadAnswered(i)
    \/ \E u \in Users, id \in IssuedIds : ApiDelete(u, id)
    \/ \E i \in DOMAIN deleteReqs : DeleteQuery(i)
    \/ \E i \in DOMAIN deleteReqs : DeleteAnswered(i)

QueryApiSpec == Init /\ [][QueryApiNext]_vars

-----------------------------------------------------------------------------
(* Claims on the confirmation gate *)

\* the step is executeConfirmedQuery answering request i
Executes(i) == \E o \in ExecOutcomes : ExecuteConfirmedQuery(i, o)

\* request i stems from a plan that a plan request for the request's
\* conversation proposed
FromPlanOfConversation(i) ==
    /\ execReqs[i].plan # 0
    /\ execReqs[i].origin.planned
    /\ execReqs[i].origin.conversationId = execReqs[i].conversationId

\* C4: an execute-confirmed request that stems from no plan planned for its
\* conversation (a payload posted directly, a demo template's payload) is a
\* no-op: nothing is posted to the executor and no Turn is written.
C4_ConfirmWithoutPlanIsNoOp ==
    [][\A i \in DOMAIN execReqs :
          (Executes(i) /\ ~FromPlanOfConversation(i))
             => (execReqs'[i].posted = NoMql /\ turns' = turns)]_vars

\* the step is handleSendQuery's continuation for an answered plan request
Resolves(i) == PlanResolve(i) /\ planReqs[i].resp.status = 200

\* C5: every plan request that resolves replaces the plan pending before it,
\* also when its own result needs no confirmation.
C5_PlanSupersedesPending ==
    [][\A i \in DOMAIN planReqs :
          (Resolves(i) /\ pendingPlan # NoPlan) => pendingPlan' # pendingPlan]_vars

\* C6: a confirm clicked on the message of a superseded plan P never sends the
\* payload of the newer plan P'.
C6_StaleConfirmNotNewerPlan ==
    [][\A k \in DOMAIN messages :
          (/\ ConfirmQuery(k)
           /\ messages[k].id # pendingPlan.id
           /\ messages[k].mql # pendingPlan.mql)
             => execReqs'[Len(execReqs')].mql # pendingPlan.mql]_vars

\* C7: the execute-confirmed request of a confirmed plan carries the
\* conversation id the plan was requested under.
C7_ConfirmKeepsConversation ==
    \A i \in DOMAIN execReqs :
        (execReqs[i].plan # 0 /\ execReqs[i].origin.planned)
           => execReqs[i].conversationId = execReqs[i].origin.conversationId

-----------------------------------------------------------------------------
(* Claims on the authorization of a confirmed operation.  The rule is the  *)
(* one the specification gives for the Execution Authorizer: a grant covers *)
(* the target collection by `*` or by its name, the operation is in the     *)
(* grant's operations, no referenced field is in its restrictedFields.      *)

Grants(perms) == {perms.collections[j] : j \in DOMAIN perms.collections}

Covering(perms, mql) == {g \in Grants(perms) : g.name \in {"*", mql.collection}}

OperationGranted(perms, mql) ==
    \E g \in Covering(perms, mql) : mql.operation \in g.operations

ReferencesRestricted(perms, mql) ==
    \E g \in Covering(perms, mql) :
        "*" \in g.fields /\ mql.fields \cap g.restrictedFields # {}

Allows(perms, mql) ==
    \E g \in Covering(perms, mql) :
        mql.operation \in g.operations /\ mql.fields \cap g.restrictedFields = {}

\* the request is rejected: nothing is posted to the executor, no rows return
Rejected(r) == r.posted = NoMql /\ r.resp.status # 200

\* C1: a confirmed operation that references a field which a grant of the
\* acting user allows by `*` and lists in restrictedFields is rejected: it is
\* not sent for execution and no result rows are returned.
C1_RestrictionWins ==
    [][\A i \in DOMAIN execReqs :
          (/\ Executes(i)
           /\ ReferencesRestricted(Permissions(execReqs[i].user), execReqs[i].mql))
             => Rejected(execReqs'[i])]_vars

\* C2: a confirmed operation whose collection no grant of the acting user
\* covers, or whose operation the covering grant does not contain, is never
\* sent to the executor.
C2_UngrantedNeverExecuted ==
    [][\A i \in DOMAIN execReqs :
          (/\ Executes(i)
           /\ ~OperationGranted(Permissions(execReqs[i].user), execReqs[i].mql))
             => Rejected(execReqs'[i])]_vars

\* C3: an operation planned while the policy allowed it and confirmed after
\* an edit that no longer allows it is not executed.
C3_RecheckAtExecution ==
    [][\A i \in DOMAIN execReqs :
          (/\ Executes(i)
           /\ execReqs[i].origin.planned
           /\ Allows(execReqs[i].origin.permissions, execReqs[i].mql)
           /\ ~Allows(Permissions(execReqs[i].user), execReqs[i].mql))
             => execReqs'[i].posted = NoMql]_vars

-----------------------------------------------------------------------------
(* Claims on the permission derivation and the policy store *)

DefaultPolicies == {n \in PolicyNames : policies[n].exists /\ policies[n].isDefault}

\* the step is getQueryPlan calling the translator for request i
Plans(i) ==
    /\ \E o \in PlanOutcomes : GetQueryPlan(i, o)
    /\ planReqs'[i].permissions # NoData

\* C8: for a user without an assigned RolePolicy the permissions of a plan
\* request are those of the single default policy if there is one, and the
\* restrictive fallback only otherwise.
C8_DefaultPolicyResolved ==
    [][\A i \in DOMAIN planReqs :
          (Plans(i) /\ users[planReqs[i].user].rolePolicy = NoPolicy)
             => /\ \A d \in DefaultPolicies :
                      DefaultPolicies = {d}
                         => planReqs'[i].permissions = policies[d].permissions
                /\ DefaultPolicies = {}
                      => planReqs'[i].permissions = FallbackPermissions]_vars

\* C9: the permissions of a plan request never have an empty grant set.
C9_GrantSetNeverEmpty ==
    [][\A i \in DOMAIN planReqs :
          Plans(i) => planReqs'[i].permissions.collections # <<>>]_vars

\* C10: at most one RolePolicy has isDefault = true.
C10_AtMostOneDefault == Cardinality(DefaultPolicies) <= 1

-----------------------------------------------------------------------------
(* Administration by any authenticated user *)

AdminSpec == Init /\ [][AdminNext]_vars

\* C11: updateUserRole, createPolicy and updatePolicy requested by a user
\* whose role is not admin leave every User's role and rolePolicy and every
\* RolePolicy unchanged.
C11_OnlyAdminsMutate ==
    [][\A a \in Users :
          users[a].role # "admin" =>
             /\ \A u \in Users, r \in Roles, n \in PolicyNames :
                   UpdateUserRole(a, u, r, n) => UNCHANGED <<users, policies>>
             /\ \A n \in PolicyNames, b \in PolicyBodies :
                   (CreatePolicy(a, n, b) \/ UpdatePolicy(a, n, b))
                      => UNCHANGED <<users, policies>>]_vars

-----------------------------------------------------------------------------
(* Claims on the history of executions *)

\* C12: every execute-confirmed attempt appends exactly one Turn: a
\* successful Turn when it succeeds, a failed Turn (success = false, one error
\* message) when it fails.
C12_OneTurnPerAttempt ==
    [][\A i \in DOMAIN execReqs :
          (Executes(i) /\ execReqs[i].mql # NoMql)
             => /\ Len(turns') = Len(turns) + 1
                /\ SubSeq(turns', 1, Len(turns)) = turns
                /\ LET t == turns'[Len(turns')]
                   IN  /\ t.success = (execReqs'[i].resp.status = 200)
                       /\ ~t.success => t.errorMessage # ""]_vars

-----------------------------------------------------------------------------
(* Claims on the plan request and the translator *)

\* the step is getQueryPlan answering request i after the call of the
\* translator failed
PlanFails(i) == \E o \in PlanFailures : GetQueryPlan(i, o)

Shown(resp) == PlanMessage(0, resp)

\* C14: an unreachable translator, a timeout and a malformed response each
\* show the user an error different from the other two and from a plan.
C14_DistinctFailures ==
    \A i \in DOMAIN planReqs :
        (planReqs[i].ui /\ planReqs[i].stage = "sent")
           => \A o1, o2 \in {Unavailable, Timeout, ServiceError,
                              Replied(MalformedReply(FALSE)),
                              Replied(PlanReply("database", MqlNames, TRUE))} :
                 o1 # o2 => Shown(PlanResponse(planReqs[i], o1))
                               # Shown(PlanResponse(planReqs[i], o2))

\* the step is getQueryPlan answering request i with a plan
Translates(i) ==
    /\ \E o \in TranslatorOutcomes : GetQueryPlan(i, o)
    /\ planReqs'[i].resp.status = 200

\* C15: a returned plan of type conversational has needsConfirmation false,
\* one of type database or visualization has it true, whatever the translator
\* replied.
C15_FlagFollowsType ==
    [][\A i \in DOMAIN planReqs :
          Translates(i) =>
             LET d == planReqs'[i].resp.data
             IN  /\ d.type = "conversational" => ~d.needsConfirmation
                 /\ d.type \in {"database", "visualization"} => d.needsConfirmation]_vars

-----------------------------------------------------------------------------
(* Claims on the assembled history *)

\* the step is executeQuery answering request i
DirectExecutes(i) == \E o \in TranslateOutcomes : ExecuteQuery(i, o)

\* the step is getQueryPlan answering request i
AnswersPlan(i) == \E o \in PlanOutcomes \cup TranslatorOutcomes : GetQueryPlan(i, o)

\* h holds, in creation order, one pair of messages for each of the last
\* min(n, 5) of the n Turns of user u in conversation conv, the first of the
\* pair the user message with the Turn's question
ChronologicalLastFive(h, u, conv) ==
    LET ts == ConversationTurns(u, conv)
        n == Len(ts)
        m == IF n < 5 THEN n ELSE 5
    IN  /\ Len(h) = 2 * m
        /\ \A k \in 1..m :
              /\ h[2 * k - 1] = [role |-> "user", content |-> <<ts[n - m + k].naturalQuery>>]
              /\ h[2 * k].role = "assistant"

C17_CounterpartFollowsSuccess ==
    [][\A i \in DOMAIN planReqs :
          (AnswersPlan(i) /\ planReqs'[i].resp.status # 400
                          /\ planReqs[i].conversationId # NoConv)
             => LET h == planReqs'[i].history
                    ts == ConversationTurns(planReqs[i].user, planReqs[i].conversationId)
                    n == Len(ts)
                    m == IF n < 5 THEN n ELSE 5
                IN  \A k \in 1..m :
                       LET t == ts[n - m + k]
                       IN  /\ h[2 * k - 1].content = <<t.naturalQuery>>
                           /\ ~t.success => h[2 * k].content[1] = "Error: "
                           /\ t.success => h[2 * k].content = <<t.explanation>>]_vars

-----------------------------------------------------------------------------
(* Claims on the validation of the text *)

\* request r was turned down before the history was read and before the
\* translator was called
TurnedDown(r) ==
    /\ r.resp.status = 400
    /\ r.history = NoData
    /\ r.permissions = NoData

\* the length of the text is acceptable
Acceptable(q) == QueryLength(q) >= 1 /\ QueryLength(q) <= 5000

\* C18: a plan or direct execute request whose text is empty or longer than
\* 5000 characters is rejected with a validation error before the history is
\* read and the translator called, and writes no Turn; a text of exactly 5000
\* characters is accepted.
C18_ValidatedFirst ==
    [][/\ \A i \in DOMAIN planReqs :
             AnswersPlan(i) =>
                IF Acceptable(planReqs[i].query)
                THEN planReqs'[i].resp.status # 400 /\ planReqs'[i].history # NoData
                ELSE TurnedDown(planReqs'[i]) /\ turns' = turns
       /\ \A i \in DOMAIN directReqs :
             DirectExecutes(i) =>
                IF Acceptable(directReqs[i].query)
                THEN directReqs'[i].resp.status # 400 /\ directReqs'[i].history # NoData
                ELSE TurnedDown(directReqs'[i]) /\ turns' = turns]_vars

\* a text of 5000 characters went through and is recorded in a Turn of the
\* conversation, and a plan request with 5001 characters was turned down
C18_Witness ==
    /\ \E k \in DOMAIN turns : turns[k].naturalQuery = "max"
    /\ \E i \in DOMAIN planReqs :
          /\ planReqs[i].stage = "done"
          /\ planReqs[i].query = "long"
          /\ TurnedDown(planReqs[i])

-----------------------------------------------------------------------------
(* Claims on the stored results *)

\* Turn t holds the length of the result list rs and a sample of at most 100
\* records that is a prefix of rs
Sampled(t, rs) ==
    /\ t.results.count = Len(rs)
    /\ Len(t.results.sample) <= 100
    /\ Len(t.results.sample) <= Len(rs)
    /\ \A k \in DOMAIN t.results.sample : t.results.sample[k] = rs[k]

\* C19: the Turn written by execute-confirmed or by direct execute stores a
\* sample of at most 100 records that is a prefix of the execution's result
\* list, and a count equal to the length of that list.
C19_SampleIsBoundedPrefix ==
    [][/\ \A i \in DOMAIN execReqs :
             (\E n \in ResultSizes : ExecuteConfirmedQuery(i, ExecutorReply(n)))
                => /\ Len(turns') = Len(turns) + 1
                   /\ Sampled(turns'[Len(turns')], execReqs'[i].resp.data.results)
       /\ \A i \in DOMAIN directReqs :
             (\E n \in ResultSizes : ExecuteQuery(i, TranslatorReply(n)))
                => /\ Len(turns') = Len(turns) + 1
                   /\ Sampled(turns'[Len(turns')], directReqs'[i].resp.data.results)]_vars

\* a Turn of an execution with 101 rows holds 100 of them
C19_Witness ==
    \E k \in DOMAIN turns :
        /\ turns[k].results.count = 101
        /\ Len(turns[k].results.sample) = 100
        /\ turns[k].results.sample[100] = 100

-----------------------------------------------------------------------------
(* Claims on deletion *)

\* the Turns with _id id that belong to user u, and those that do not
OwnedBy(u, id) == {k \in DOMAIN turns : turns[k]._id = id /\ turns[k].userId = u}
OfAnother(u, id) == {k \in DOMAIN turns : turns[k]._id = id /\ turns[k].userId # u}

\* C20: deleteQuery by user u for Turn id t removes t only if t belongs to u;
\* when t belongs to another user the call answers not-found and every Turn
\* stays as it was; a successful delete removes exactly that one Turn.
C20_DeleteIsUserScoped ==
    [][\A i \in DOMAIN deleteReqs :
          DeleteQuery(i) =>
            LET r == deleteReqs[i]
                resp == deleteReqs'[i].resp
                Kept == {k \in DOMAIN turns : \E j \in DOMAIN turns' : turns'[j] = turns[k]}
            IN  /\ (DOMAIN turns) \ Kept \subseteq OwnedBy(r.user, r.id)
                /\ OfAnother(r.user, r.id) # {}
                      => resp.status = 404 /\ turns' = turns
                /\ resp.status = 200
                      => /\ Len(turns') = Len(turns) - 1
                         /\ (DOMAIN turns) \ Kept = OwnedBy(r.user, r.id)
                         /\ \A j \in DOMAIN turns' : \E k \in Kept : turns'[j] = turns[k]
                /\ resp.status \in {200, 404}
                /\ resp.status = 404 => turns' = turns /\ OwnedBy(r.user, r.id) = {}]_vars

\* a user was answered not-found for a Turn of another user, which is still there
C20_Witness ==
    \E i \in DOMAIN deleteReqs :
        /\ deleteReqs[i].stage = "done"
        /\ deleteReqs[i].resp.status = 404
        /\ OfAnother(deleteReqs[i].user, deleteReqs[i].id) # {}
        /\ \E k \in DOMAIN turns : turns[k].userId = deleteReqs[i].user

-----------------------------------------------------------------------------
(* Claims on repeated deletion *)

\* the step is deleteQuery answering request i for a Turn deleted before
DeletesAgain(i) == DeleteQuery(i) /\ deleteReqs[i].id \in deletedIds

\* C21: a second deleteQuery for an id that is already deleted is answered
\* not-found, not with a server error, and leaves every other Turn unchanged.
C21_SecondDeleteNotFound ==
    [][\A i \in DOMAIN deleteReqs :
          DeletesAgain(i)
             => /\ deleteReqs'[i].resp.status = 404
                /\ deleteReqs'[i].resp.message = "Query not found"
                /\ turns' = turns]_vars

\* the owner of a deleted Turn asked for its deletion again and was answered
\* not-found, with another Turn of the conversation in the store
C21_Witness ==
    \E i \in DOMAIN deleteReqs :
        /\ deleteReqs[i].stage = "done"
        /\ deleteReqs[i].id \in deletedIds
        /\ deleteReqs[i].resp.status = 404
        /\ \E k \in DOMAIN turns : turns[k].userId = deleteReqs[i].user

-----------------------------------------------------------------------------
(* Claims on the reads *)

\* C22: history(limit, skip) returns only Turns of the requesting user, most
\* recent first from the skip-th on, with total the number of the user's Turns
\* and hasMore true exactly when the user has Turns beyond the returned page,
\* which is when total > skip + limit.
C22_HistoryPage ==
    [][\A i \in DOMAIN readReqs :
          GetHistory(i) =>
             LET r == readReqs[i]
                 d == readReqs'[i].resp.data
                 mine == SelectSeq(turns, LAMBDA t : t.userId = r.user)
                 n == Len(mine)
             IN  /\ \A j \in DOMAIN d.history :
                       /\ d.history[j].userId = r.user
                       /\ r.skip + j <= n
                       /\ d.history[j]._id = mine[n + 1 - (r.skip + j)]._id
                 /\ d.pagination.total = n
                 /\ d.pagination.hasMore = (n > r.skip + r.limit)
                 /\ d.pagination.hasMore = (n > r.skip + Len(d.history))]_vars

-----------------------------------------------------------------------------
(* Claims on the failures of a direct execution *)

\* the step is executeQuery answering request i after the call of the
\* translator failed with outcome o and the write of the failed Turn failed too
FailsUnrecorded(i, o) == ~o.ok /\ ExecuteQueryStoring(i, o, FALSE)

\* C23: when a direct execution fails and the write of the failed Turn fails
\* as well, the caller receives the original execution error in a structured
\* failure response; the persistence failure does not replace it.
C23_WriteFailureDoesNotMask ==
    [][\A i \in DOMAIN directReqs, o \in {Timeout, Unavailable} :
          (FailsUnrecorded(i, o) /\ ValidationError(directReqs[i].query) = "")
             => /\ directReqs'[i].stage = "done"
                /\ directReqs'[i].resp.status = 500
                /\ directReqs'[i].resp.message = "Error executing query"
                /\ directReqs'[i].resp.error = o.error
                /\ turns' = turns]_vars

\* a request was answered with the error of the translator while the store
\* holds no Turn for it, next to a recorded one
C23_Witness ==
    \E i \in DOMAIN directReqs :
        /\ directReqs[i].stage = "done"
        /\ directReqs[i].resp.status = 500
        /\ directReqs[i].resp.error = Timeout.error
        /\ turns # <<>>
        /\ \A k \in DOMAIN turns : turns[k].naturalQuery # directReqs[i].query

-----------------------------------------------------------------------------
(* Claims on cancel *)

CancelNote == "Query cancelled by user."

\* MessageBubble: the text of the bubble, message.query for a message of the
\* user and message.explanation for the others
Rendered(m) == IF m.isUser THEN m.query ELSE m.explanation

\* C24: cancel clears the pending plan, so that a confirm that follows does
\* nothing; it puts the note "cancelled by user" into the visible messages,
\* writes no Turn and sends no execute-confirmed request.
C24_CancelClearsGate ==
    [][/\ \A k \in DOMAIN messages :
             CancelQuery(k)
                => /\ pendingPlan' = NoPlan
                   /\ \E j \in DOMAIN messages' : Rendered(messages'[j]) = CancelNote
                   /\ turns' = turns
                   /\ execReqs' = execReqs
       /\ \A k \in DOMAIN messages : ConfirmQuery(k) => pendingPlan # NoPlan
       /\ Len(execReqs') > Len(execReqs) => pendingPlan # NoPlan]_vars

-----------------------------------------------------------------------------
(* Claims on the success flag of a direct execution *)

\* the success flag of the body of a response: the controller sets it true
\* with status 200 and false with every other status
Success(resp) == resp.status = 200

\* C25: whenever the translator's reply to a direct execute reports a failure
\* (success = false, or an error), the response to the caller has success =
\* false and carries the message.
C25_FailureIsNotSuccess ==
    [][\A i \in DOMAIN directReqs, o \in TranslateOutcomes :
          (/\ ExecuteQuery(i, o)
           /\ o.ok
           /\ ValidationError(directReqs[i].query) = ""
           /\ (~o.data.success \/ o.data.error # ""))
             => /\ ~Success(directReqs'[i].resp)
                /\ directReqs'[i].resp.message # ""]_vars

-----------------------------------------------------------------------------
(* Claims on policy edits *)

\* user u holds a policy: its rolePolicy references a RolePolicy of the store
Holder(u) == users[u].rolePolicy \in PolicyNames /\ policies[users[u].rolePolicy].exists

\* C26: a plan or direct execute request handled after an edit of policy p, by
\* any user whose rolePolicy references p, sends p's grants as they are after
\* the edit to the translator.
C26_EditReachesHolders ==
    [][/\ \A i \in DOMAIN planReqs :
             (Plans(i) /\ Holder(planReqs[i].user))
                => planReqs'[i].permissions
                      = policies[users[planReqs[i].user].rolePolicy].permissions
       /\ \A i \in DOMAIN directReqs :
             (/\ DirectExecutes(i)
              /\ ValidationError(directReqs[i].query) = ""
              /\ Holder(directReqs[i].user))
                => directReqs'[i].permissions
                      = policies[users[directReqs[i].user].rolePolicy].permissions]_vars

\* after the Manager policy was edited down to the orders grant, a direct
\* execution of one of its holders was sent with that grant
C26_Witness ==
    /\ policies["Manager"].permissions = OrdersPermissions
    /\ \E i \in DOMAIN directReqs :
          /\ directReqs[i].stage = "done"
          /\ users[directReqs[i].user].rolePolicy = "Manager"
          /\ directReqs[i].permissions = OrdersPermissions

-----------------------------------------------------------------------------
(* Claims on overlapping plans and confirms *)

\* C27: when the confirm of a plan completes, with a success or a failure,
\* while a newer plan has become the pending one, the newer plan stays
\* pending: only the plan that was confirmed is cleared.
C27_NewerPlanSurvives ==
    [][\A i \in DOMAIN execReqs :
          (/\ ConfirmResolve(i)
           /\ pendingPlan # NoPlan
           /\ pendingPlan.id # execReqs[i].plan)
             => pendingPlan' = pendingPlan]_vars

-----------------------------------------------------------------------------
(* Claims on the Turns of the store *)

\* the step is deleteQuery removing Turn t at the request of its user
DeletedByOwner(t) ==
    \E i \in DOMAIN deleteReqs :
        /\ DeleteQuery(i)
        /\ deleteReqs[i].id = t._id
        /\ deleteReqs[i].user = t.userId

\* C28: no operation of the query API changes a field of an existing Turn,
\* and a Turn leaves the store only by the deleteQuery of its user for that
\* one record.
C28_TurnsImmutable ==
    [][\A k \in DOMAIN turns :
          \/ \E j \in DOMAIN turns' : turns'[j] = turns[k]
          \/ DeletedByOwner(turns[k]) /\ Len(turns') = Len(turns) - 1]_vars

\* a Turn was deleted, another is still in the store, and a read of the
\* conversation has been answered with Turns
C28_Witness ==
    /\ deletedIds # {}
    /\ turns # <<>>
    /\ \E i \in DOMAIN readReqs :
          /\ readReqs[i].stage = "done"
          /\ readReqs[i].kind = "conversation"
          /\ readReqs[i].resp.status = 200

-----------------------------------------------------------------------------
(* Claims on repeated clicks and on the message of a plan *)

\* C29: each plan is executed at most once: no two execute-confirmed requests
\* are issued for one plan, and no two Turns recorded for it.
C29_PlanExecutedOnce ==
    [][\A k \in DOMAIN messages :
          ConfirmQuery(k)
             => \A i \in DOMAIN execReqs : execReqs[i].plan # pendingPlan.id]_vars

\* the message that proposed plan id
PlanMessageOf(id) == {j \in DOMAIN messages : messages[j].id = id}

\* C30: the outcome of a confirm or a cancel (result count, executing flag,
\* error, note) is set on the message of the plan it concerns (the pending
\* plan's message or the one whose button was clicked) and on no other message.
C30_OutcomeOnPlanMessage ==
    [][/\ \A i \in DOMAIN execReqs :
             ConfirmResolve(i)
                => \A j \in DOMAIN messages :
                      j \notin PlanMessageOf(execReqs[i].plan) => messages'[j] = messages[j]
       /\ \A k \in DOMAIN messages :
             (ConfirmQuery(k) \/ CancelQuery(k))
                => \A j \in DOMAIN messages :
                      j \notin PlanMessageOf(pendingPlan.id) \cup {k}
                         => messages'[j] = messages[j]]_vars

=============================================================================
